---- MODULE Spec2Model ----
(***************************************************************************)
(* A model of http_server.py: the accept/read/parse/resolve/respond loop   *)
(* of server(), the request parser parse_request(), the resolver           *)
(* resolve_uri() over a small filesystem, and the four response builders.  *)
(*                                                                         *)
(* Representation.  A Python str or bytes value is a sequence of atoms.    *)
(* Every atom of a request is one byte / one character ("G", "/", " ",     *)
(* "\n", ...); the byte pair "0xC3" "0xA9" is the UTF-8 encoding of the    *)
(* single character "U+E9".  The literals of the program (status lines,    *)
(* "webroot", media types) are kept as one atom each.  The values False    *)
(* and None are the sequences <<"<False>">> and <<"<None>">>, which no     *)
(* input can produce.                                                      *)
(***************************************************************************)
EXTENDS Integers, Sequences, FiniteSets, TLC

(***************************************************************************)
(* Bounds of the model.                                                    *)
(***************************************************************************)
MaxConns == 2
MaxGenLen == 2

(***************************************************************************)
(* Program constants.                                                      *)
(***************************************************************************)
ChunkSize == 1024
WEBROOT == <<"webroot">>
False == <<"<False>">>
None == <<"<None>">>
EmptyDict == [k \in {} |-> <<>>]

Truthy(x) == x # False /\ x # None /\ x # <<>>

Min(S) == CHOOSE m \in S : \A n \in S : m <= n
Max(S) == CHOOSE m \in S : \A n \in S : n <= m

(***************************************************************************)
(* bytes.decode('utf8') and str.encode('utf8').                            *)
(***************************************************************************)
ValidUtf8(b) ==
    \A i \in 1..Len(b) :
        /\ b[i] = "0xC3" => (i < Len(b) /\ b[i + 1] = "0xA9")
        /\ b[i] = "0xA9" => (i > 1 /\ b[i - 1] = "0xC3")

NotContinuation(x) == x # "0xA9"

decode(b) ==
    LET kept == SelectSeq(b, NotContinuation)
    IN  [i \in 1..Len(kept) |-> IF kept[i] = "0xC3" THEN "U+E9" ELSE kept[i]]

RECURSIVE encode(_)
encode(s) ==
    IF s = <<>> THEN <<>>
    ELSE (IF Head(s) = "U+E9" THEN <<"0xC3", "0xA9">> ELSE <<Head(s)>>)
             \o encode(Tail(s))

(***************************************************************************)
(* str.splitlines(), str.split(), str.split(sep), str.strip(chars).        *)
(***************************************************************************)
IsLineBreak(c) == c \in {"\n", "\r"}
IsSpace(c) == c \in {" ", "\t", "\n", "\r"}

RECURSIVE splitlines(_)
splitlines(s) ==
    LET brk == {i \in 1..Len(s) : IsLineBreak(s[i])}
    IN  IF s = <<>> THEN <<>>
        ELSE IF brk = {} THEN <<s>>
        ELSE LET i == Min(brk)
                 j == IF s[i] = "\r" /\ i < Len(s) /\ s[i + 1] = "\n"
                      THEN i + 1 ELSE i
             IN  <<SubSeq(s, 1, i - 1)>> \o splitlines(SubSeq(s, j + 1, Len(s)))

RECURSIVE split(_)
split(s) ==
    LET ink == {i \in 1..Len(s) : ~IsSpace(s[i])}
    IN  IF ink = {} THEN <<>>
        ELSE LET a == Min(ink)
                 sp == {i \in a..Len(s) : IsSpace(s[i])}
                 b == IF sp = {} THEN Len(s) + 1 ELSE Min(sp)
             IN  <<SubSeq(s, a, b - 1)>> \o split(SubSeq(s, b, Len(s)))

RECURSIVE split_sep(_, _)
split_sep(s, sep) ==
    LET at == {i \in 1..(Len(s) - Len(sep) + 1) :
                   SubSeq(s, i, i + Len(sep) - 1) = sep}
    IN  IF at = {} THEN <<s>>
        ELSE LET i == Min(at)
             IN  <<SubSeq(s, 1, i - 1)>>
                     \o split_sep(SubSeq(s, i + Len(sep), Len(s)), sep)

strip(s, c) ==
    LET keep == {i \in 1..Len(s) : s[i] # c}
    IN  IF keep = {} THEN <<>> ELSE SubSeq(s, Min(keep), Max(keep))

(***************************************************************************)
(* b"\r\n".join(parts)                                                     *)
(***************************************************************************)
\* join that also ends every part with the separator
RECURSIVE join_terminated(_, _)
join_terminated(sep, parts) ==
    IF parts = <<>> THEN <<>>
    ELSE parts[1] \o sep \o join_terminated(sep, Tail(parts))

RECURSIVE join(_, _)
join(sep, parts) ==
    IF parts = <<>> THEN <<>>
    ELSE IF Len(parts) = 1 THEN parts[1]
    ELSE parts[1] \o sep \o join(sep, Tail(parts))

CRLF == <<"\r", "\n">>

response_ok(body, mimetype) ==
    join(CRLF, << <<"HTTP/1.1 200 OK">>,
                  <<"Content-Type: ">> \o mimetype,
                  <<>>,
                  body >>)

response_method_not_allowed == join(CRLF, << <<"HTTP/1.1 405 Method Not Allowed">> >>)

response_not_found == join(CRLF, << <<"HTTP/1.1 404 Not Found">> >>)

not_implemented == join(CRLF, << <<"HTTP/1.1 501 Not Implemented">> >>)

(***************************************************************************)
(* parse_request(request).  The result records the exception that leaves   *)
(* the function ("none" when it returns) and the four returned values.     *)
(* IndexError is caught inside the function; the ValueError of a failed    *)
(* tuple unpacking is not.                                                 *)
(***************************************************************************)
SetItem(d, key, value) ==
    [k \in DOMAIN d \cup {key} |-> IF k = key THEN value ELSE d[k]]

RECURSIVE parse_headers(_, _)
parse_headers(lines, headers) ==
    IF lines = <<>> THEN [raised |-> "none", headers |-> headers]
    ELSE IF Head(lines) = <<>> THEN parse_headers(Tail(lines), headers)
    ELSE LET kv == split_sep(Head(lines), <<":", " ">>)
         IN  IF Len(kv) # 2
             THEN [raised |-> "ValueError", headers |-> headers]
             ELSE parse_headers(Tail(lines), SetItem(headers, kv[1], kv[2]))

\* a parser that takes the tokens of the first line by index, one at a time,
\* so that the IndexError of a short line is caught after some are stored
parse_request_by_index(request) ==
    LET request_lines == splitlines(request)
        first == IF request_lines = <<>> THEN <<>> ELSE split(request_lines[1])
        tok(i) == IF i <= Len(first) THEN first[i] ELSE False
        h == IF request_lines = <<>> \/ Len(first) < 3
             THEN [raised |-> "none", headers |-> EmptyDict]
             ELSE parse_headers(Tail(request_lines), EmptyDict)
    IN  [raised |-> h.raised, method |-> tok(1), uri |-> tok(2),
         version |-> tok(3), headers |-> h.headers]

parse_request(request) ==
    LET request_lines == splitlines(request)
        fall == [raised |-> "none", method |-> False, uri |-> False,
                 version |-> False, headers |-> EmptyDict]
    IN  IF request_lines = <<>> THEN fall
        ELSE LET first == split(request_lines[1])
             IN  IF Len(first) # 3 THEN [fall EXCEPT !.raised = "ValueError"]
                 ELSE LET h == parse_headers(Tail(request_lines), EmptyDict)
                      IN  [raised |-> h.raised, method |-> first[1],
                           uri |-> first[2], version |-> first[3],
                           headers |-> h.headers]

(***************************************************************************)
(* The filesystem.  A filesystem state maps the absolute path of every     *)
(* entry (a sequence of names, <<>> being the root directory) to its kind  *)
(* and, for a regular file, its bytes.  The server runs in directory CWD,  *)
(* which holds the directory webroot.                                      *)
(***************************************************************************)
Dir == [kind |-> "dir", data |-> <<>>]
File(bytes) == [kind |-> "file", data |-> bytes]
NoEntry == << <<"<ENOENT>">> >>

CWD == << <<"home">> >>
WebrootPath == CWD \o <<WEBROOT>>

FsServed ==
    (WebrootPath :> Dir)
    @@ (WebrootPath \o << <<"a", ".", "h">> >> :> File(<<"h", "i", "\r", "\n">>))
    @@ (WebrootPath \o << <<"c", ".", "h">> >> :> File(<<"h", "0xA9">>))
    @@ (WebrootPath \o << <<"b", ".", "o">> >> :> File(<<"0xA9", "\r", "\n">>))
    @@ (WebrootPath \o << <<"q">> >> :> File(<<"x">>))
    @@ (WebrootPath \o << <<"d">> >> :> Dir)

FsOutside ==
    (<<>> :> Dir)
    @@ (CWD :> Dir)
    @@ (CWD \o << <<"s", ".", "h">> >> :> File(<<"k", "e", "y">>))

FsStates == {FsOutside @@ FsServed, FsOutside @@ (WebrootPath :> Dir), FsOutside}

IsDirAt(fs, p) == p \in DOMAIN fs /\ fs[p].kind = "dir"

Parent(p) == IF p = <<>> THEN <<>> ELSE SubSeq(p, 1, Len(p) - 1)

\* The kernel's walk of a pathname, one component at a time: "." and an
\* empty component stay, ".." goes to the parent, and every component that
\* is walked through has to be an existing directory.
RECURSIVE Walk(_, _, _)
Walk(fs, cur, comps) ==
    IF cur \notin DOMAIN fs THEN NoEntry
    ELSE IF comps = <<>> THEN cur
    ELSE IF fs[cur].kind # "dir" THEN NoEntry
    ELSE IF Head(comps) \in {<<>>, <<".">>} THEN Walk(fs, cur, Tail(comps))
    ELSE IF Head(comps) = <<".", ".">> THEN Walk(fs, Parent(cur), Tail(comps))
    ELSE Walk(fs, cur \o <<Head(comps)>>, Tail(comps))

Lookup(fs, path) ==
    IF path # <<>> /\ path[1] = "/"
    THEN Walk(fs, <<>>, split_sep(path, <<"/">>))
    ELSE Walk(fs, CWD, split_sep(path, <<"/">>))

path_join(a, b) ==
    IF b # <<>> /\ b[1] = "/" THEN b
    ELSE IF a = <<>> \/ a[Len(a)] = "/" THEN a \o b
    ELSE a \o <<"/">> \o b

path_exists(fs, path) == Lookup(fs, path) # NoEntry

path_isdir(fs, path) == IsDirAt(fs, Lookup(fs, path))

\* mimetypes.guess_type(path)[0]: the type of the extension of the last
\* component, None when it has none or the table does not know it.
guess_type(path) ==
    LET comps == split_sep(path, <<"/">>)
        base == comps[Len(comps)]
        dots == {i \in 2..Len(base) : base[i] = "."}
        ext == IF dots = {} THEN <<>> ELSE SubSeq(base, Max(dots), Len(base))
    IN  IF ext = <<".", "h">> THEN <<"text", "/", "plain">>
        ELSE IF ext = <<".", "o">> THEN <<"application", "/", "octet-stream">>
        ELSE None

\* open(path, 'r').read(): UTF-8 decoding with universal newlines.
NotLfAfterCr(s, i) == ~(s[i] = "\n" /\ i > 1 /\ s[i - 1] = "\r")

universal_newlines(s) ==
    LET idx == {i \in 1..Len(s) : NotLfAfterCr(s, i)}
        nth(k) == CHOOSE i \in idx : Cardinality({j \in idx : j <= i}) = k
    IN  [k \in 1..Cardinality(idx) |->
            IF s[nth(k)] = "\r" THEN "\n" ELSE s[nth(k)]]

read_text(bytes) ==
    IF ValidUtf8(bytes)
    THEN [raised |-> "none", text |-> universal_newlines(decode(bytes))]
    ELSE [raised |-> "UnicodeDecodeError", text |-> <<>>]

\* check_output(["ls -l " + path], shell=True): one line per immediate
\* entry of the directory, in a fixed order.
RECURSIVE listing_lines(_)
listing_lines(names) ==
    IF names = <<>> THEN <<>>
    ELSE Head(names) \o <<"\n">> \o listing_lines(Tail(names))

ls_l(fs, path) ==
    LET d == Lookup(fs, path)
        kids == {p \in DOMAIN fs : Len(p) = Len(d) + 1 /\ Parent(p) = d}
        order == CHOOSE f \in [1..Cardinality(kids) -> kids] :
                     \A i, j \in 1..Cardinality(kids) : f[i] = f[j] => i = j
    IN  listing_lines([i \in 1..Cardinality(kids) |-> order[i][Len(d) + 1]])

(***************************************************************************)
(* resolve_uri(uri) on filesystem fs.                                      *)
(***************************************************************************)
effective_uri(uri) == path_join(WEBROOT, strip(uri, "/"))

\* a resolver that opens every file in text mode
resolve_uri_text_mode(fs, uri) ==
    LET eff == effective_uri(uri)
        guessed == guess_type(eff)
        txt == read_text(fs[Lookup(fs, eff)].data)
    IN  IF ~path_exists(fs, eff)
        THEN [raised |-> "NameError", content |-> <<>>, mime_type |-> <<>>]
        ELSE IF path_isdir(fs, eff)
        THEN [raised |-> "none", content |-> ls_l(fs, eff),
              mime_type |-> <<"text", "/", "plain">>]
        ELSE IF ~Truthy(guessed)
        THEN [raised |-> "none", content |-> False, mime_type |-> guessed]
        ELSE IF txt.raised # "none"
        THEN [raised |-> txt.raised, content |-> <<>>, mime_type |-> <<>>]
        ELSE [raised |-> "none", content |-> encode(txt.text),
              mime_type |-> guessed]

resolve_uri(fs, uri) ==
    LET eff == effective_uri(uri)
        guessed == guess_type(eff)
        bytes == fs[Lookup(fs, eff)].data
        base_type == split_sep(guessed, <<"/">>)[1]
        txt == read_text(bytes)
    IN  IF ~path_exists(fs, eff)
        THEN [raised |-> "NameError", content |-> <<>>, mime_type |-> <<>>]
        ELSE IF path_isdir(fs, eff)
        THEN [raised |-> "none", content |-> ls_l(fs, eff),
              mime_type |-> <<"text", "/", "plain">>]
        ELSE IF ~Truthy(guessed)
        THEN [raised |-> "none", content |-> False, mime_type |-> guessed]
        ELSE IF base_type # <<"text">>
        THEN [raised |-> "none", content |-> bytes, mime_type |-> guessed]
        ELSE IF txt.raised # "none"
        THEN [raised |-> txt.raised, content |-> <<>>, mime_type |-> <<>>]
        ELSE [raised |-> "none", content |-> encode(txt.text),
              mime_type |-> guessed]

(***************************************************************************)
(* The requests a client may send: every byte string over GenAlphabet of   *)
(* at most MaxGenLen bytes, and a list of longer requests.                 *)
(***************************************************************************)
GenAlphabet == {"G", " ", "\n", ":"}

SeqsUpTo(S, n) == UNION {[1..k -> S] : k \in 0..n}

Req(uri) == <<"G", " ">> \o uri \o <<" ", "H">>

LongRequests ==
    { Req(<<"/">>) \o <<"\r", "\n", "\r", "\n">>,
      Req(<<"/", "a", ".", "h">>) \o <<"\r", "\n">>,
      Req(<<"/", "c", ".", "h">>),
      Req(<<"/", "b", ".", "o">>),
      Req(<<"/", "q">>),
      Req(<<"/", "d", "/">>),
      Req(<<"/", "m">>),
      Req(<<"/", ".", ".", "/", "s", ".", "h">>),
      Req(<<"/", "0xC3", "0xA9">>),
      <<"P", " ", "/", "q", " ", "H">>,
      <<"\n">> \o Req(<<"/">>),
      Req(<<"/">>) \o <<"\n", "k", ":", " ", "v", "\n", "k", ":", " ", "w">>,
      Req(<<"/">>) \o <<"\n", "k", ":", " ", "v", ":", " ", "w">>,
      Req(<<"/">>) \o <<"\n", "j", ":", " ", "v", "\n", "k">> }

Requests == SeqsUpTo(GenAlphabet, MaxGenLen) \cup LongRequests

\* Requests that fill a chunk of ChunkSize bytes: a request line and one
\* header whose value is padded with "x".  ChunkRequest is exactly one chunk;
\* in StraddlingRequest the two bytes of "U+E9" are the last byte of the
\* first chunk and the first byte of the second.
Filler(n) == [i \in 1..n |-> "x"]
PadTo(head, n) == head \o Filler(n - Len(head))

ChunkRequest == PadTo(Req(<<"/", "m">>) \o <<"\n", "k", ":", " ">>, ChunkSize)

StraddlingRequest ==
    PadTo(Req(<<"/", "m">>) \o <<"\n", "k", ":", " ">>, ChunkSize - 1)
        \o <<"0xC3", "0xA9", "y">>

ChunkedRequests == {ChunkRequest, StraddlingRequest, Req(<<"/", "q">>)}

(***************************************************************************)
(* The state of server().                                                  *)
(***************************************************************************)
VARIABLES
    pc,         \* position of server(): "bind", "accept", "recv", "parse",
                \* "resolve", "send", "finally", "returned", "raised"
    sock,       \* the listening socket: "created", "listening", "closed"
    fs,         \* the filesystem state
    conns,      \* one record per connection returned by accept()
    wire,       \* bytes the peer of the current connection has yet to send
    eof,        \* whether the peer shuts its side down after sending them
    request, data, method, uri, version, headers,
    content, mime_type, response,   \* locals of server()
    exc         \* the exception in flight, and the step that raised it

locals == <<request, data, method, uri, version, headers, content, mime_type, response>>
vars == <<pc, sock, fs, conns, wire, eof, locals, exc>>

Unbound == <<"<unbound>">>
NoExc == [type |-> "none", at |-> "none"]
Raise(type, at) == [type |-> type, at |-> at]

\* rcvd: the bytes recv has returned on the connection (remembered for the
\* connection in hand and the one before it); sent: the bytes written on it;
\* the counters count the steps taken for it
NewConn == [open |-> TRUE, reads |-> 0, rcvd |-> <<>>, parsed |-> 0,
            resolved |-> 0, outcome |-> "none", writes |-> 0, sent |-> <<>>]

cur == Len(conns)

\* the records of the connections, with the received bytes of all but the
\* latest forgotten
Forget(cs) ==
    [i \in 1..Len(cs) |-> IF i < Len(cs) THEN [cs[i] EXCEPT !.rcvd = <<>>] ELSE cs[i]]
OpenConns == {i \in 1..Len(conns) : conns[i].open}

Init ==
    /\ pc = "bind"
    /\ sock = "created"
    /\ fs \in FsStates
    /\ conns = <<>>
    /\ wire = <<>>
    /\ eof = FALSE
    /\ request = Unbound /\ data = Unbound /\ method = Unbound
    /\ uri = Unbound /\ version = Unbound /\ headers = Unbound
    /\ content = Unbound /\ mime_type = Unbound /\ response = Unbound
    /\ exc = NoExc

\* sock.bind(address); sock.listen(1)
Bind ==
    /\ pc = "bind"
    /\ sock' = "listening"
    /\ pc' = "accept"
    /\ UNCHANGED <<fs, conns, wire, eof, locals, exc>>

\* bind() fails (address in use): the error leaves server()
BindFail ==
    /\ pc = "bind"
    /\ exc' = Raise("OSError", "bind")
    /\ pc' = "raised"
    /\ UNCHANGED <<sock, fs, conns, wire, eof, locals>>

\* request = '' set once, before the loop, and not for every connection
AcceptKeepsBuffer ==
    /\ pc = "accept"
    /\ Len(conns) < MaxConns
    /\ \E req \in Requests, shut \in BOOLEAN :
           /\ wire' = req
           /\ eof' = shut
    /\ conns' = Append(Forget(conns), NewConn)
    /\ request' = IF request = Unbound THEN <<>> ELSE request
    /\ pc' = "recv"
    /\ UNCHANGED <<sock, fs, data, method, uri, version, headers,
                   content, mime_type, response, exc>>

\* conn, addr = sock.accept(); try: request = ''
Accept ==
    /\ pc = "accept"
    /\ Len(conns) < MaxConns
    /\ \E req \in Requests, shut \in BOOLEAN :
           /\ wire' = req
           /\ eof' = shut
    /\ conns' = Append(Forget(conns), NewConn)
    /\ request' = <<>>
    /\ pc' = "recv"
    /\ UNCHANGED <<sock, fs, data, method, uri, version, headers,
                   content, mime_type, response, exc>>

\* accept() fails: the error leaves server()
AcceptFail ==
    /\ pc = "accept"
    /\ exc' = Raise("OSError", "accept")
    /\ pc' = "raised"
    /\ UNCHANGED <<sock, fs, conns, wire, eof, locals>>

\* one turn of the read loop: data = conn.recv(1024);
\* request += data.decode('utf8'); if len(data) < 1024: break
RecvStep(chunk) ==
    /\ data' = chunk
    /\ conns' = [conns EXCEPT ![cur].reads = @ + 1, ![cur].rcvd = @ \o chunk]
    /\ IF ValidUtf8(chunk)
       THEN /\ request' = request \o decode(chunk)
            /\ pc' = IF Len(chunk) < ChunkSize THEN "parse" ELSE "recv"
            /\ exc' = exc
       ELSE /\ request' = request
            /\ pc' = "finally"
            /\ exc' = Raise("UnicodeDecodeError", "decode")
    /\ UNCHANGED <<sock, fs, eof, method, uri, version, headers,
                   content, mime_type, response>>

\* recv returns a non-empty prefix of what the peer still has to send
Recv ==
    /\ pc = "recv"
    /\ wire # <<>>
    /\ \E k \in 1..Min({Len(wire), ChunkSize}) :
           /\ RecvStep(SubSeq(wire, 1, k))
           /\ wire' = SubSeq(wire, k + 1, Len(wire))

\* recv returns b'' once the peer has sent everything and shut down
RecvEof ==
    /\ pc = "recv"
    /\ wire = <<>>
    /\ eof
    /\ RecvStep(<<>>)
    /\ wire' = wire

\* recv fails (connection reset)
RecvFail ==
    /\ pc = "recv"
    /\ exc' = Raise("OSError", "recv")
    /\ pc' = "finally"
    /\ UNCHANGED <<sock, fs, conns, wire, eof, locals>>

\* a handler that validates the method: anything but the method "G" is
\* answered 405 without resolving
ParseValidatingMethod ==
    /\ pc = "parse"
    /\ LET r == parse_request(request)
       IN  IF r.raised = "none"
           THEN /\ method' = r.method
                /\ uri' = r.uri
                /\ version' = r.version
                /\ headers' = r.headers
                /\ conns' = [conns EXCEPT ![cur].parsed = @ + 1]
                /\ exc' = exc
                /\ IF Truthy(r.method) /\ r.method = <<"G">>
                   THEN pc' = "resolve" /\ response' = response
                   ELSE pc' = "send" /\ response' = response_method_not_allowed
           ELSE /\ exc' = Raise(r.raised, "parse")
                /\ pc' = "finally"
                /\ UNCHANGED <<conns, method, uri, version, headers, response>>
    /\ UNCHANGED <<sock, fs, wire, eof, request, data, content, mime_type>>

\* method, uri, version, headers = parse_request(request); if method: ...
\* else: response = response_method_not_allowed()
Parse ==
    /\ pc = "parse"
    /\ LET r == parse_request(request)
       IN  IF r.raised = "none"
           THEN /\ method' = r.method
                /\ uri' = r.uri
                /\ version' = r.version
                /\ headers' = r.headers
                /\ conns' = [conns EXCEPT ![cur].parsed = @ + 1]
                /\ exc' = exc
                /\ IF Truthy(r.method)
                   THEN pc' = "resolve" /\ response' = response
                   ELSE pc' = "send" /\ response' = response_method_not_allowed
           ELSE /\ exc' = Raise(r.raised, "parse")
                /\ pc' = "finally"
                /\ UNCHANGED <<conns, method, uri, version, headers, response>>
    /\ UNCHANGED <<sock, fs, wire, eof, request, data, content, mime_type>>

\* a handler that writes the status line before the file is read
ResolveAfterStatusLine ==
    /\ pc = "resolve"
    /\ LET r == resolve_uri(fs, uri)
       IN  CASE r.raised = "none" ->
                /\ content' = r.content
                /\ mime_type' = r.mime_type
                /\ response' = IF Truthy(r.mime_type)
                               THEN response_ok(r.content, r.mime_type)
                               ELSE not_implemented
                /\ conns' = [conns EXCEPT ![cur].resolved = @ + 1,
                                          ![cur].outcome = "returned"]
                /\ pc' = "send"
                /\ exc' = exc
             [] r.raised = "NameError" ->
                /\ response' = response_not_found
                /\ conns' = [conns EXCEPT ![cur].resolved = @ + 1,
                                          ![cur].outcome = "NameError"]
                /\ pc' = "send"
                /\ UNCHANGED <<content, mime_type, exc>>
             [] OTHER ->
                /\ conns' = [conns EXCEPT ![cur].resolved = @ + 1,
                                          ![cur].outcome = r.raised,
                                          ![cur].sent = <<"HTTP/1.1 200 OK">>]
                /\ exc' = Raise(r.raised, "resolve")
                /\ pc' = "finally"
                /\ UNCHANGED <<content, mime_type, response>>
    /\ UNCHANGED <<sock, fs, wire, eof, request, data, method, uri, version, headers>>

\* try: content, mime_type = resolve_uri(uri); response = response_ok(...)
\* or not_implemented(); except NameError: response = response_not_found()
Resolve ==
    /\ pc = "resolve"
    /\ LET r == resolve_uri(fs, uri)
       IN  CASE r.raised = "none" ->
                /\ content' = r.content
                /\ mime_type' = r.mime_type
                /\ response' = IF Truthy(r.mime_type)
                               THEN response_ok(r.content, r.mime_type)
                               ELSE not_implemented
                /\ conns' = [conns EXCEPT ![cur].resolved = @ + 1,
                                          ![cur].outcome = "returned"]
                /\ pc' = "send"
                /\ exc' = exc
             [] r.raised = "NameError" ->
                /\ response' = response_not_found
                /\ conns' = [conns EXCEPT ![cur].resolved = @ + 1,
                                          ![cur].outcome = "NameError"]
                /\ pc' = "send"
                /\ UNCHANGED <<content, mime_type, exc>>
             [] OTHER ->
                /\ conns' = [conns EXCEPT ![cur].resolved = @ + 1,
                                          ![cur].outcome = r.raised]
                /\ exc' = Raise(r.raised, "resolve")
                /\ pc' = "finally"
                /\ UNCHANGED <<content, mime_type, response>>
    /\ UNCHANGED <<sock, fs, wire, eof, request, data, method, uri, version, headers>>

\* a handler that writes the response a second time
SendTwice ==
    /\ pc = "send"
    /\ conns' = [conns EXCEPT ![cur].writes = @ + 2,
                              ![cur].sent = @ \o response \o response]
    /\ pc' = "finally"
    /\ UNCHANGED <<sock, fs, wire, eof, locals, exc>>

\* conn.sendall(response)
Send ==
    /\ pc = "send"
    /\ conns' = [conns EXCEPT ![cur].writes = @ + 1,
                              ![cur].sent = @ \o response]
    /\ pc' = "finally"
    /\ UNCHANGED <<sock, fs, wire, eof, locals, exc>>

\* sendall fails (broken pipe) after a proper prefix of the response
SendFail ==
    /\ pc = "send"
    /\ \E k \in 0..(Len(response) - 1) :
           conns' = [conns EXCEPT ![cur].sent = @ \o SubSeq(response, 1, k)]
    /\ exc' = Raise("OSError", "send")
    /\ pc' = "finally"
    /\ UNCHANGED <<sock, fs, wire, eof, locals>>

\* KeyboardInterrupt while blocked in accept():
\* except KeyboardInterrupt: sock.close(); return
InterruptAccept ==
    /\ pc = "accept"
    /\ exc' = Raise("KeyboardInterrupt", "accept")
    /\ sock' = "closed"
    /\ pc' = "returned"
    /\ UNCHANGED <<fs, conns, wire, eof, locals>>

\* KeyboardInterrupt inside the try block of a connection (lines 182-208):
\* while blocked in recv or sendall, or at the statements in between
InterruptHandling ==
    /\ pc \in {"recv", "parse", "resolve", "send"}
    /\ exc' = Raise("KeyboardInterrupt", pc)
    /\ pc' = "finally"
    /\ UNCHANGED <<sock, fs, conns, wire, eof, locals>>

\* conn.close() as the last statement of the try body: skipped by any exception
FinallyOnSuccessOnly ==
    /\ pc = "finally"
    /\ conns' = [conns EXCEPT ![cur].open = (exc.type # "none")]
    /\ CASE exc.type = "none" -> pc' = "accept" /\ sock' = sock
         [] exc.type = "KeyboardInterrupt" -> pc' = "returned" /\ sock' = "closed"
         [] OTHER -> pc' = "raised" /\ sock' = sock
    /\ wire' = <<>> /\ eof' = FALSE
    /\ UNCHANGED <<fs, locals, exc>>

\* conn.close() only in an exception handler: skipped when all goes well
FinallyOnErrorOnly ==
    /\ pc = "finally"
    /\ conns' = [conns EXCEPT ![cur].open = (exc.type = "none")]
    /\ CASE exc.type = "none" -> pc' = "accept" /\ sock' = sock
         [] exc.type = "KeyboardInterrupt" -> pc' = "returned" /\ sock' = "closed"
         [] OTHER -> pc' = "raised" /\ sock' = sock
    /\ wire' = <<>> /\ eof' = FALSE
    /\ UNCHANGED <<fs, locals, exc>>

\* an interrupt handler that returns without sock.close()
FinallyKeepsSock ==
    /\ pc = "finally"
    /\ conns' = [conns EXCEPT ![cur].open = FALSE]
    /\ CASE exc.type = "none" -> pc' = "accept"
         [] exc.type = "KeyboardInterrupt" -> pc' = "returned"
         [] OTHER -> pc' = "raised"
    /\ UNCHANGED <<sock, fs, wire, eof, locals, exc>>

\* a loop that goes on to the next connection after an error
FinallyRestarts ==
    /\ pc = "finally"
    /\ conns' = [conns EXCEPT ![cur].open = FALSE]
    /\ CASE exc.type = "KeyboardInterrupt" -> pc' = "returned" /\ sock' = "closed"
         [] OTHER -> pc' = "accept" /\ sock' = sock
    /\ wire' = <<>> /\ eof' = FALSE
    /\ UNCHANGED <<fs, locals, exc>>

\* finally: conn.close() (what the peer had yet to send is dropped with the
\* connection); then the next turn of the loop, or the exception
\* goes on: KeyboardInterrupt to the handler of line 212, any other out of
\* server()
Finally ==
    /\ pc = "finally"
    /\ conns' = [conns EXCEPT ![cur].open = FALSE]
    /\ CASE exc.type = "none" -> pc' = "accept" /\ sock' = sock
         [] exc.type = "KeyboardInterrupt" -> pc' = "returned" /\ sock' = "closed"
         [] OTHER -> pc' = "raised" /\ sock' = sock
    /\ wire' = <<>> /\ eof' = FALSE
    /\ UNCHANGED <<fs, locals, exc>>

Next ==
    \/ Bind \/ BindFail
    \/ Accept \/ AcceptFail
    \/ Recv \/ RecvEof \/ RecvFail
    \/ Parse \/ Resolve
    \/ Send \/ SendFail
    \/ InterruptAccept \/ InterruptHandling
    \/ Finally

Spec == Init /\ [][Next]_vars

(***************************************************************************)
(* The server with a single client whose request fills a chunk or more:    *)
(* the read loop takes more than one turn.                                 *)
(***************************************************************************)
AcceptChunked ==
    /\ pc = "accept"
    /\ conns = <<>>
    /\ \E req \in ChunkedRequests, shut \in BOOLEAN :
           /\ wire' = req
           /\ eof' = shut
    /\ conns' = Append(conns, NewConn)
    /\ request' = <<>>
    /\ pc' = "recv"
    /\ UNCHANGED <<sock, fs, data, method, uri, version, headers,
                   content, mime_type, response, exc>>

NextChunked ==
    \/ Bind \/ BindFail
    \/ AcceptChunked \/ AcceptFail
    \/ Recv \/ RecvEof \/ RecvFail
    \/ Parse \/ Resolve
    \/ Send \/ SendFail
    \/ InterruptAccept \/ InterruptHandling
    \/ Finally

SpecChunked == Init /\ [][NextChunked]_vars

(***************************************************************************)
(* Vocabulary of the properties.                                           *)
(***************************************************************************)
\* the handling of the latest connection is over (its finally clause ran)
Handled == conns # <<>> /\ ~conns[cur].open

\* the handling was cut short by the socket or by an interrupt, not by the
\* request or the filesystem
CutShort == exc.at \in {"recv", "decode", "send"} \/ exc.type = "KeyboardInterrupt"

IsPrefix(p, q) == Len(p) <= Len(q) /\ SubSeq(q, 1, Len(p)) = p

HasSep(line) == \E i \in 1..(Len(line) - 1) : line[i] = ":" /\ line[i + 1] = " "
FirstSep(line) == Min({i \in 1..(Len(line) - 1) : line[i] = ":" /\ line[i + 1] = " "})
NameOf(line) == SubSeq(line, 1, FirstSep(line) - 1)
ValueOf(line) == SubSeq(line, FirstSep(line) + 2, Len(line))

\* the non-empty lines after the first
HeaderLines(text) ==
    LET ls == splitlines(text)
    IN  {i \in 2..Len(ls) : ls[i] # <<>>}

WellFormedFirstLine(text) ==
    splitlines(text) # <<>> /\ Len(split(splitlines(text)[1])) = 3

FirstLineEmpty(text) == text = <<>> \/ IsLineBreak(text[1])

IsToken(t) == t # False /\ t # <<>> /\ \A i \in 1..Len(t) : ~IsSpace(t[i])

(***************************************************************************)
(* C1: every connection returned by accept is closed on every exit path of *)
(* its handling: whenever the server is outside the handling of a          *)
(* connection (waiting in accept, returned, or left by an exception), no   *)
(* accepted connection is open, whatever step succeeded, failed with an    *)
(* expected signal or raised an unexpected error.                          *)
(***************************************************************************)
C1_ClosedOnEveryExit ==
    pc \in {"accept", "returned", "raised"} => OpenConns = {}

\* an unexpected error of the parser left server(), and the connection is closed
C1_Witness ==
    /\ pc = "raised"
    /\ exc = Raise("ValueError", "parse")
    /\ Handled

(***************************************************************************)
(* C2: a failure in parsing or in URI resolution is recovered inside the   *)
(* connection handler and never propagates to the server loop, which stops *)
(* only on an accept/bind failure or an external interrupt.                *)
(***************************************************************************)
C2_FailuresRecovered ==
    /\ exc.at \in {"parse", "resolve"} => exc.type = "KeyboardInterrupt"
    /\ pc = "raised" => exc.at \in {"bind", "accept"}

C4_EmptyFirstLine405 ==
    (Handled /\ ~CutShort /\ FirstLineEmpty(request)) =>
        /\ conns[cur].parsed = 1
        /\ method = False
        /\ conns[cur].resolved = 0
        /\ conns[cur].sent = <<"HTTP/1.1 405 Method Not Allowed">>

(***************************************************************************)
(* C5: connections are handled strictly one at a time: at most one         *)
(* accepted connection is open in any state, and accept returns a new      *)
(* connection only when every earlier one has been closed.                 *)
(***************************************************************************)
C5_OneAtATime ==
    /\ [](Cardinality(OpenConns) <= 1)
    /\ [][Len(conns') > Len(conns) => OpenConns = {}]_vars

\* a second connection is being handled after the first was closed
C5_Witness ==
    /\ Len(conns) = 2
    /\ ~conns[1].open
    /\ conns[2].open

(***************************************************************************)
(* C6: the filesystem entry that resolve_uri tests, lists or reads lies    *)
(* under WEBROOT for every URI the parser hands over, '..' segments        *)
(* included.                                                               *)
(***************************************************************************)
C6_UnderWebroot ==
    (conns # <<>> /\ conns[cur].resolved = 1) =>
        LET entry == Lookup(fs, effective_uri(uri))
        IN  entry # NoEntry => IsPrefix(WebrootPath, entry)

(***************************************************************************)
(* C7: an external interrupt, whether it arrives in accept or while a      *)
(* connection is read, handled or answered, makes the server return        *)
(* normally with the listening socket closed and no connection open.       *)
(***************************************************************************)
C7_InterruptStopsCleanly ==
    /\ exc.type = "KeyboardInterrupt" => pc \in {"finally", "returned"}
    /\ pc = "returned" =>
           /\ exc.type = "KeyboardInterrupt"
           /\ sock = "closed"
           /\ OpenConns = {}

\* the server has returned after an interrupt that arrived during resolution
C7_Witness ==
    /\ pc = "returned"
    /\ exc = Raise("KeyboardInterrupt", "resolve")
    /\ Handled

(***************************************************************************)
(* C8: a header line without the ': ' separator does not abort the         *)
(* request: the parser returns the method, uri and version of the first    *)
(* line and the headers of the well-formed lines, and a response is sent.  *)
(***************************************************************************)
C8_MalformedHeaderSkipped ==
    LET ls == splitlines(request)
    IN  (/\ Handled /\ ~CutShort
         /\ WellFormedFirstLine(request)
         /\ \E i \in HeaderLines(request) : ~HasSep(ls[i])
         /\ \A i \in HeaderLines(request) :
                HasSep(ls[i]) => ~HasSep(ValueOf(ls[i]))) =>
            /\ conns[cur].parsed = 1
            /\ <<method, uri, version>> = split(ls[1])
            /\ DOMAIN headers = {NameOf(ls[i]) : i \in {j \in HeaderLines(request) : HasSep(ls[j])}}
            /\ conns[cur].writes = 1

(***************************************************************************)
(* C9: each non-empty line after the first is split once, at the first     *)
(* ': ', into a name and a value stored verbatim; a value may itself hold  *)
(* ': ', and of several lines with one name the last gives the value.      *)
(***************************************************************************)
C9_SplitOnceLastWins ==
    LET ls == splitlines(request)
        hl == HeaderLines(request)
    IN  (/\ Handled /\ ~CutShort
         /\ WellFormedFirstLine(request)
         /\ \A i \in hl : HasSep(ls[i])) =>
            /\ conns[cur].parsed = 1
            /\ DOMAIN headers = {NameOf(ls[i]) : i \in hl}
            /\ \A i \in hl :
                   (\A j \in hl : j > i => NameOf(ls[j]) # NameOf(ls[i]))
                       => headers[NameOf(ls[i])] = ValueOf(ls[i])

(***************************************************************************)
(* C10: parse_request never returns a partially populated request: when it *)
(* returns, either method, uri and version are all absent and headers is   *)
(* empty (the result for the empty string), or all three are present.      *)
(***************************************************************************)
C10_NeverPartial ==
    (conns # <<>> /\ conns[cur].parsed = 1) =>
        /\ \/ method = False /\ uri = False /\ version = False /\ headers = EmptyDict
           \/ IsToken(method) /\ IsToken(uri) /\ IsToken(version)
        /\ request = <<>> => method = False

\* the parser returned the absent request for the empty string on a second
\* connection
C10_Witness ==
    /\ conns # <<>>
    /\ conns[cur].parsed = 1
    /\ request = <<>>
    /\ method = False
    /\ headers = EmptyDict
    /\ Len(conns) = 2

\* the filesystem entry the resolver reached for the URI of the connection in
\* hand, and the media type guessed for it
Entry == Lookup(fs, effective_uri(uri))
Guessed == guess_type(effective_uri(uri))
IsFileEntry == Entry # NoEntry /\ fs[Entry].kind = "file"
Resolved == conns # <<>> /\ conns[cur].resolved = 1

(***************************************************************************)
(* C11: resolving a URI of an existing regular file whose guessed media    *)
(* type is text/* returns that media type and content equal, byte for      *)
(* byte, to the bytes of the file on disk, whatever those bytes are.       *)
(***************************************************************************)
C11_TextBytesExact ==
    (Resolved /\ IsFileEntry /\ Guessed # None /\ Guessed[1] = "text") =>
        /\ conns[cur].outcome = "returned"
        /\ mime_type = Guessed
        /\ content = fs[Entry].data

Recent == {i \in 1..Len(conns) : i >= Len(conns) - 1}

\* byte strings a and b are a non-empty method token each, followed by the
\* same bytes
SameButMethod(a, b) ==
    \E m \in 1..Len(a), n \in 1..Len(b) :
        /\ \A k \in 1..m : ~IsSpace(a[k])
        /\ \A k \in 1..n : ~IsSpace(b[k])
        /\ SubSeq(a, m + 1, Len(a)) = SubSeq(b, n + 1, Len(b))
        /\ m < Len(a) => IsSpace(a[m + 1])

(***************************************************************************)
(* C13: the method token is not validated: of two requests that differ     *)
(* only in their non-empty method token, answered on the same filesystem   *)
(* state, both reach the resolver and both get the same response bytes.    *)
(***************************************************************************)
C13_MethodIgnored ==
    \A i, j \in Recent :
        (/\ conns[i].writes = 1 /\ conns[j].writes = 1
         /\ SameButMethod(conns[i].rcvd, conns[j].rcvd)) =>
            /\ conns[i].resolved = 1
            /\ conns[j].resolved = 1
            /\ conns[i].sent = conns[j].sent

\* "G /q H" and then "P /q H" have both been answered
C13_Witness ==
    /\ Len(conns) = 2
    /\ conns[1].rcvd = <<"G", " ", "/", "q", " ", "H">>
    /\ conns[2].rcvd = <<"P", " ", "/", "q", " ", "H">>
    /\ conns[1].writes = 1
    /\ conns[2].writes = 1
    /\ conns[2].sent = <<"HTTP/1.1 501 Not Implemented">>

(***************************************************************************)
(* C14: each accepted connection goes through read, parse, resolve         *)
(* (skipped only when the method is absent), write and close in that       *)
(* order, each at most once: nothing is written before the read loop has   *)
(* ended, a connection whose handling completes has exactly one response   *)
(* written on it, nothing is read or written after close, and no step is   *)
(* taken a second time.                                                    *)
(***************************************************************************)
StepsInOrder(c) ==
    /\ c.parsed <= 1 /\ c.resolved <= 1 /\ c.writes <= 1
    /\ c.parsed = 1 => c.reads >= 1
    /\ c.resolved = 1 => c.parsed = 1
    /\ c.sent # <<>> => c.parsed = 1
    /\ c.writes = 1 => c.parsed = 1

C14_EachStepOnceInOrder ==
    /\ [](\A i \in 1..Len(conns) :
            /\ StepsInOrder(conns[i])
            /\ (~conns[i].open /\ exc.type = "none") => conns[i].writes = 1
            /\ (i = cur /\ conns[i].writes = 1 /\ conns[i].resolved = 0)
                   => method = False)
    /\ [][\A i \in 1..Len(conns) :
            LET c == conns[i]
                d == conns'[i]
            IN  /\ ~c.open =>
                       /\ ~d.open
                       /\ <<d.reads, d.parsed, d.resolved, d.writes, d.sent>>
                              = <<c.reads, c.parsed, c.resolved, c.writes, c.sent>>
                /\ d.reads > c.reads => (i = cur /\ pc = "recv" /\ c.parsed = 0)
                /\ d.parsed > c.parsed =>
                       (pc = "parse" /\ c.reads >= 1 /\ c.resolved = 0 /\ c.sent = <<>>)
                /\ d.resolved > c.resolved =>
                       (pc = "resolve" /\ c.parsed = 1 /\ c.sent = <<>>)
                /\ d.sent # c.sent =>
                       (pc = "send" /\ c.parsed = 1 /\ c.sent = <<>>)
                /\ (c.open /\ ~d.open) => pc = "finally"]_vars

\* a connection went through all five steps and is closed
C14_Witness ==
    /\ conns # <<>>
    /\ ~conns[cur].open
    /\ exc.type = "none"
    /\ conns[cur].reads = 1
    /\ conns[cur].parsed = 1
    /\ conns[cur].resolved = 1
    /\ conns[cur].writes = 1

(***************************************************************************)
(* C15: the read loop ends at the first read that returns fewer than 1024  *)
(* bytes and not before, and the text handed to the parser is the UTF-8    *)
(* decoding of the concatenation of all chunks read up to and including    *)
(* that one, however the bytes are divided into chunks: a decoding error   *)
(* can only come from that concatenation, never from where a chunk ends.   *)
(***************************************************************************)
C15_DecodesConcatenation ==
    conns # <<>> =>
        LET c == conns[cur]
        IN  /\ pc = "recv" => Len(c.rcvd) = c.reads * ChunkSize
            /\ pc = "parse" =>
                   /\ Len(data) < ChunkSize
                   /\ Len(c.rcvd) = (c.reads - 1) * ChunkSize + Len(data)
                   /\ request = decode(c.rcvd)
            /\ exc.at = "decode" =>
                   /\ Len(data) < ChunkSize
                   /\ ~ValidUtf8(c.rcvd)

(***************************************************************************)
(* C16: for a request whose size is no multiple of 1024, and a recv that   *)
(* may return any non-empty prefix of the bytes still to come, the handler *)
(* has read the complete request when it parses it, and a handling that    *)
(* neither the socket nor an interrupt cuts short ends with a response     *)
(* written and the connection closed.                                      *)
(***************************************************************************)
C16_CompleteRequestRead ==
    conns # <<>> =>
        LET c == conns[cur]
        IN  /\ (/\ pc \in {"parse", "resolve", "send"}
                /\ (Len(c.rcvd) + Len(wire)) % ChunkSize # 0) => wire = <<>>
            /\ (Handled /\ ~CutShort /\ Len(c.rcvd) % ChunkSize # 0) => c.writes = 1

(***************************************************************************)
(* C17: a failure other than an external interrupt that escapes the        *)
(* handling of a connection stops the server loop for good: the connection *)
(* is closed, nothing restarts the loop and accept is not called again.    *)
(***************************************************************************)
Failed == exc.type \notin {"none", "KeyboardInterrupt"}

C17_FailureIsFatal ==
    /\ [](Failed => pc \in {"finally", "raised"})
    /\ [](pc = "raised" => OpenConns = {})
    /\ [][Failed => (/\ exc' = exc
                     /\ Len(conns') = Len(conns)
                     /\ pc' = "raised")]_vars

\* a decoding error has left server() and the connection is closed
C17_Witness ==
    /\ pc = "raised"
    /\ exc = Raise("UnicodeDecodeError", "decode")
    /\ Handled

(***************************************************************************)
(* C18: no state is carried from one connection to the next: the request   *)
(* buffer starts empty for every accepted connection and holds the text of *)
(* this connection's bytes only, and two connections that received the     *)
(* same bytes on the same filesystem state got the same response.          *)
(***************************************************************************)
C18_NoCarriedState ==
    /\ conns # <<>> =>
           /\ (pc = "recv" /\ conns[cur].reads = 0) => request = <<>>
           /\ pc = "parse" => request = decode(conns[cur].rcvd)
    /\ \A i, j \in Recent :
           (/\ conns[i].writes = 1 /\ conns[j].writes = 1
            /\ conns[i].rcvd = conns[j].rcvd) =>
               conns[i].sent = conns[j].sent

\* the same request was answered twice, after one another
C18_Witness ==
    /\ Len(conns) = 2
    /\ conns[1].rcvd = <<"G", " ", "/", "b", ".", "o", " ", "H">>
    /\ conns[2].rcvd = conns[1].rcvd
    /\ conns[1].writes = 1
    /\ conns[2].writes = 1
    /\ conns[2].sent # <<>>

====
